---- MODULE Spec2Model ----
(***************************************************************************)
(* Assignment & review workflow of the therapy case management server.     *)
(*                                                                         *)
(* The model follows the request handlers of the Express routes            *)
(* (routes/plans.js, routes/assignments.js), the AssignmentService and     *)
(* NotificationService classes and the Mongoose schemas they write to.     *)
(* One action is one whole request: the route handler together with every  *)
(* service and model call it makes.                                        *)
(***************************************************************************)
EXTENDS Integers, Sequences, FiniteSets, TLC

(***************************************************************************)
(* Bounds of the model.                                                    *)
(***************************************************************************)
MaxPlans == 2
MaxNow == 6
MaxAssignments == 3
MaxOpsRecords == 1
MaxGuardRecords == 2
MaxNotifications == 2
MaxScoreRecords == 1
MaxRaceRecords == 2
MaxCleanupNotes == 2

(***************************************************************************)
(* Values.                                                                 *)
(***************************************************************************)
\* a Date field that was never written
Unset == 0
\* a request field that is absent (undefined in the request body)
Missing == "__missing__"
\* a String field that was never written
NoComment == "__unset__"

\* a reference field that is null or absent
Null == "null"
\* the _id of no document
NoId == 0

\* Patient documents in the store
Patients == {"p1"}

\* User documents in the store: role and active flag
UserRole == [t1 |-> "therapist", t2 |-> "therapist", s1 |-> "supervisor", a1 |-> "admin"]
UserActive == [t1 |-> TRUE, t2 |-> TRUE, s1 |-> TRUE, a1 |-> TRUE]
Users == DOMAIN UserRole

\* enum of TherapyPlanSchema.status
PlanStatuses == {"draft", "submitted", "approved", "needs_revision"}

\* decision values a client can put in the body of POST /:id/review; the
\* handler reads req.body without a schema, so any string arrives
Decisions == {"approved", "needs_revision", "draft", "submitted", "bogus", Missing}

\* comments values a client can send with a review
CommentInputs == {Missing, "", "add detail"}

\* roles verifyAuth can put in req.auth.role of a review request
ReviewerRoles == {"therapist", "supervisor"}

\* status values a client can send on POST /api/plans (createPlanSchema)
CreateStatuses == PlanStatuses \cup {Missing}

(***************************************************************************)
(* Store contents used by the assignment operations.                       *)
(***************************************************************************)
\* Strings that the scorer takes apart are sequences of characters.
ChronicPain == <<"c","h","r","o","n","i","c","-","p","a","i","n">>
PainManagement == <<"P","a","i","n"," ","M","a","n","a","g","e","m","e","n","t">>

\* weeklySlots of a user whose availability data is absent
NoSlots == -1

PatientDoc ==
  [p1 |-> [tags |-> <<ChronicPain>>, diagnoses |-> <<>>, caseStatus |-> "active"]]

TherapistDoc ==
  [t1 |-> [specialties |-> <<PainManagement>>, weeklySlots |-> 30, yearsExperience |-> 5],
   t2 |-> [specialties |-> <<>>, weeklySlots |-> 30, yearsExperience |-> 5]]

\* active patients of each therapist that the operations below never touch
OtherCaseload == [t1 |-> 8, t2 |-> 22]

\* the order in which User.find returns the users
UserOrder == <<"t1", "t2", "s1", "a1">>

\* the User and Patient documents as the seed leaves them
SeedDocs ==
  [therapists |->
     [t \in {"t1", "t2"} |->
        [active |-> UserActive[t],
         specialties |-> TherapistDoc[t].specialties,
         weeklySlots |-> TherapistDoc[t].weeklySlots,
         yearsExperience |-> TherapistDoc[t].yearsExperience,
         otherCaseload |-> OtherCaseload[t]]],
   patients |-> PatientDoc,
   order |-> UserOrder]

\* the environment of a development server with Clerk configured
ConfiguredEnv ==
  [nodeEnv |-> "development", skipAuth |-> FALSE, skipDb |-> FALSE,
   hasSecret |-> TRUE, hasMongoUri |-> TRUE]

\* the callers whose assign requests can overlap; none has a request in flight
Callers == {"c1", "c2"}
NoCalls == [c \in Callers |-> [pc |-> "idle"]]

VARIABLES
  plans,          \* TherapyPlan collection: sequence of documents, _id = index
  everLeftDraft,  \* history: for each plan, has its status ever been # draft
  now,            \* the clock read by `new Date()`
  audit,          \* AuditLog collection (audit_logs)
  notifications,  \* Notification collection
  pointer,        \* Patient.assignedTherapist of every stored patient
  assignments,    \* Assignment collection: sequence of documents, _id = index
  docs,           \* User and Patient documents the operations only read
  env,            \* the environment the server process was started with
  inflight,       \* the assign requests in flight, when requests overlap
  last            \* the last request served and its response

planVars == <<plans, everLeftDraft, now>>
assignVars == <<pointer, assignments>>
vars ==
  <<plans, everLeftDraft, now, audit, notifications, pointer, assignments, docs,
    env, inflight, last>>

\* the response record of a request
Response(op, id, code, decision, comments) ==
  [op |-> op, id |-> id, code |-> code, decision |-> decision, comments |-> comments]

\* ids a client can name: the stored plans, and one id that is not stored
PlanIdInputs == 1..(MaxPlans + 1)

PlanExists(id) == id \in 1..Len(plans)

\* Mongoose applies the schema default on create: status "draft" unless given;
\* submittedAt, reviewedAt and supervisorComments are not in createPlanSchema
\* and zod strips unknown keys, so they start unset
NewPlan(status) ==
  [status |-> IF status = Missing THEN "draft" ELSE status,
   submittedAt |-> Unset,
   reviewedAt |-> Unset,
   supervisorComments |-> NoComment]

\* findByIdAndUpdate(id, patch): keys whose value is undefined are removed from
\* the patch; update validators are off, so an enum is not enforced on update
ApplyPatch(doc, statusVal, field, stamp, comments) ==
  LET d1 == IF statusVal = Missing THEN doc ELSE [doc EXCEPT !.status = statusVal]
      d2 == [d1 EXCEPT ![field] = stamp]
  IN  IF comments = Missing THEN d2 ELSE [d2 EXCEPT !.supervisorComments = comments]

Init ==
  /\ plans = <<>>
  /\ everLeftDraft = <<>>
  /\ now = 1
  /\ audit = <<>>
  /\ notifications = <<>>
  /\ pointer = [p \in Patients |-> Null]
  /\ assignments = <<>>
  /\ docs = SeedDocs
  /\ env = ConfiguredEnv
  /\ inflight = NoCalls
  /\ last = Response("none", 0, 0, Missing, Missing)

\* POST /api/plans
CreatePlan(status, therapistResolved) ==
  /\ now < MaxNow
  /\ now' = now + 1
  /\ IF ~therapistResolved
       THEN /\ UNCHANGED <<plans, everLeftDraft>>
            /\ last' = Response("create", 0, 400, Missing, Missing)
       ELSE /\ Len(plans) < MaxPlans
            /\ plans' = Append(plans, NewPlan(status))
            /\ everLeftDraft' = Append(everLeftDraft, NewPlan(status).status # "draft")
            /\ last' = Response("create", Len(plans) + 1, 201, Missing, Missing)
  /\ UNCHANGED <<audit, notifications, assignVars, docs, env, inflight>>

\* POST /api/plans/:id/submit
SubmitPlan(id) ==
  /\ now < MaxNow
  /\ now' = now + 1
  /\ IF ~PlanExists(id)
       THEN /\ UNCHANGED <<plans, everLeftDraft>>
            /\ last' = Response("submit", id, 404, Missing, Missing)
       ELSE /\ plans' = [plans EXCEPT ![id] =
                           ApplyPatch(@, "submitted", "submittedAt", now, Missing)]
            /\ everLeftDraft' = [everLeftDraft EXCEPT ![id] = TRUE]
            /\ last' = Response("submit", id, 200, Missing, Missing)
  /\ UNCHANGED <<audit, notifications, assignVars, docs, env, inflight>>

\* POST /api/plans/:id/review; req.auth.role is set by verifyAuth and the
\* handler never reads it
ReviewPlan(role, id, decision, comments) ==
  /\ now < MaxNow
  /\ now' = now + 1
  /\ IF ~PlanExists(id)
       THEN /\ UNCHANGED <<plans, everLeftDraft>>
            /\ last' = [role |-> role]
                          @@ Response("review", id, 404, decision, comments)
       ELSE /\ plans' = [plans EXCEPT ![id] =
                           ApplyPatch(@, decision, "reviewedAt", now, comments)]
            /\ everLeftDraft' = [everLeftDraft EXCEPT ![id] =
                                   @ \/ plans'[id].status # "draft"]
            /\ last' = [role |-> role]
                          @@ Response("review", id, 200, decision, comments)
  /\ UNCHANGED <<audit, notifications, assignVars, docs, env, inflight>>

NextPlan ==
  \/ \E s \in CreateStatuses, r \in BOOLEAN : CreatePlan(s, r)
  \/ \E id \in PlanIdInputs : SubmitPlan(id)
  \/ \E ro \in ReviewerRoles, id \in PlanIdInputs, d \in Decisions, c \in CommentInputs :
        ReviewPlan(ro, id, d, c)

SpecPlan == Init /\ [][NextPlan]_vars

\* a date key left out of a request body
NoDate == -1

\* bodies a client can send on PUT /api/plans/:id: the route has no schema, so
\* every path of TherapyPlanSchema can be named; Missing and NoDate are keys
\* left out
UpdatePatches ==
  {[status |-> s, submittedAt |-> sa, reviewedAt |-> ra, supervisorComments |-> c] :
     s \in {Missing, "approved"}, sa \in {NoDate, 1}, ra \in {NoDate, 1},
     c \in {Missing, "add detail"}}

\* findByIdAndUpdate(id, data): the keys of the body replace the stored values
ApplyUpdate(doc, patch) ==
  [status |-> IF patch.status = Missing THEN doc.status ELSE patch.status,
   submittedAt |-> IF patch.submittedAt = NoDate THEN doc.submittedAt
                   ELSE patch.submittedAt,
   reviewedAt |-> IF patch.reviewedAt = NoDate THEN doc.reviewedAt
                  ELSE patch.reviewedAt,
   supervisorComments |-> IF patch.supervisorComments = Missing
                            THEN doc.supervisorComments
                            ELSE patch.supervisorComments]

\* PUT /api/plans/:id
UpdatePlan(id, patch) ==
  /\ now < MaxNow
  /\ now' = now + 1
  /\ IF ~PlanExists(id)
       THEN /\ UNCHANGED <<plans, everLeftDraft>>
            /\ last' = Response("update", id, 404, Missing, Missing)
       ELSE /\ plans' = [plans EXCEPT ![id] = ApplyUpdate(@, patch)]
            /\ everLeftDraft' = [everLeftDraft EXCEPT ![id] =
                                   @ \/ plans'[id].status # "draft"]
            /\ last' = Response("update", id, 200, Missing, Missing)
  /\ UNCHANGED <<audit, notifications, assignVars, docs, env, inflight>>

\* the plan routes used by a therapist who edits plans and a supervisor who
\* reviews them with comments
NextPlanEdit ==
  \/ \E s \in CreateStatuses : CreatePlan(s, TRUE)
  \/ \E id \in PlanIdInputs : SubmitPlan(id)
  \/ \E id \in PlanIdInputs, d \in {"approved", "needs_revision"} :
        ReviewPlan("supervisor", id, d, "add detail")
  \/ \E id \in PlanIdInputs, patch \in UpdatePatches : UpdatePlan(id, patch)

SpecPlanEdit == Init /\ [][NextPlanEdit]_vars

(***************************************************************************)
(* Object ids.  A client names a document by a 24 digit hex string; the    *)
(* validation schema accepts the digits a-f in either case, the store      *)
(* casts the string to an ObjectId, and ObjectId.toString() prints lower   *)
(* case.                                                                   *)
(***************************************************************************)
IdString(oid, upper) == [oid |-> oid, upper |-> upper]
CastObjectId(str) == str.oid
ObjectIdToString(oid) == IdString(oid, FALSE)

(***************************************************************************)
(* Caregiver scorer.  Scores are kept as integers: a sub-score s of the    *)
(* code is held as s * SubScale, a weighted score or a total t as          *)
(* t * TotalScale.                                                          *)
(***************************************************************************)
SubScale == 60
TotalScale == 1200

LowerChar(c) ==
  CASE c = "P" -> "p"
    [] c = "M" -> "m"
    [] OTHER -> c

ToLowerCase(str) == [i \in 1..Len(str) |-> LowerChar(str[i])]

\* String.prototype.includes
Includes(str, sub) ==
  \E i \in 0..(Len(str) - Len(sub)) : SubSeq(str, i + 1, i + Len(sub)) = sub

Min(a, b) == IF a <= b THEN a ELSE b

\* Array.prototype.filter(...).length over the patient's items
CountMatches(items, specialties) ==
  Cardinality({i \in 1..Len(items) :
     \E j \in 1..Len(specialties) :
        \/ Includes(ToLowerCase(specialties[j]), ToLowerCase(items[i]))
        \/ Includes(ToLowerCase(items[i]), ToLowerCase(specialties[j]))})

\* a specialty score without the cap at 100
calculateSpecialtyMatchUncapped(patient, therapist) ==
  LET totalMatches == CountMatches(patient.tags, therapist.specialties)
                        + CountMatches(patient.diagnoses, therapist.specialties)
      totalItems == Len(patient.tags) + Len(patient.diagnoses)
      bonusTenths == IF totalMatches > 1 THEN 12 ELSE 10
  IN  IF Len(therapist.specialties) = 0 THEN 50 * SubScale
      ELSE IF totalItems = 0 THEN 50 * SubScale
      ELSE (totalMatches * 100 * bonusTenths * SubScale) \div (totalItems * 10)

calculateSpecialtyMatch(patient, therapist) ==
  LET totalMatches == CountMatches(patient.tags, therapist.specialties)
                        + CountMatches(patient.diagnoses, therapist.specialties)
      totalItems == Len(patient.tags) + Len(patient.diagnoses)
      bonusTenths == IF totalMatches > 1 THEN 12 ELSE 10
  IN  IF Len(therapist.specialties) = 0 THEN 50 * SubScale
      ELSE IF totalItems = 0 THEN 50 * SubScale
      ELSE Min(100 * SubScale,
               (totalMatches * 100 * bonusTenths * SubScale) \div (totalItems * 10))

calculateAvailabilityScore(therapist) ==
  LET weeklySlots == therapist.weeklySlots
  IN  IF weeklySlots = NoSlots \/ weeklySlots = 0 THEN 50 * SubScale
      ELSE IF weeklySlots >= 40 THEN 100 * SubScale
      ELSE IF weeklySlots >= 30 THEN 80 * SubScale
      ELSE IF weeklySlots >= 20 THEN 60 * SubScale
      ELSE IF weeklySlots >= 10 THEN 40 * SubScale
      ELSE 20 * SubScale

\* Patient.countDocuments({assignedTherapist, caseStatus: 'active'})
CurrentCaseload(t, ptr) ==
  docs.therapists[t].otherCaseload
    + Cardinality({p \in Patients :
                     ptr[p] = t /\ docs.patients[p].caseStatus = "active"})

calculateCaseloadScore(currentCaseload) ==
  IF currentCaseload >= 25 THEN 10 * SubScale
  ELSE IF currentCaseload >= 20 THEN 40 * SubScale
  ELSE IF currentCaseload >= 15 THEN 80 * SubScale
  ELSE IF currentCaseload >= 10 THEN 100 * SubScale
  ELSE IF currentCaseload >= 5 THEN 90 * SubScale
  ELSE 70 * SubScale

calculateExperienceScore(therapist) ==
  Min(100 * SubScale,
      Min(80, therapist.yearsExperience * 10) * SubScale
        + Min(20, Len(therapist.specialties) * 5) * SubScale)

\* weights 0.4, 0.25, 0.25, 0.1 taken on the TotalScale
calculateTherapistScore(patient, therapist, currentCaseload) ==
  LET breakdown ==
        [specialtyMatch |-> calculateSpecialtyMatch(patient, therapist) * 8,
         availability |-> calculateAvailabilityScore(therapist) * 5,
         caseload |-> calculateCaseloadScore(currentCaseload) * 5,
         experience |-> calculateExperienceScore(therapist) * 2]
  IN  [breakdown |-> breakdown,
       total |-> breakdown.specialtyMatch + breakdown.availability
                   + breakdown.caseload + breakdown.experience]

generateRationale(breakdown) ==
  LET reasons ==
        (IF breakdown.specialtyMatch > 70 * TotalScale THEN {"specialty"} ELSE {})
          \cup (IF breakdown.availability > 80 * TotalScale THEN {"availability"} ELSE {})
          \cup (IF breakdown.caseload > 70 * TotalScale THEN {"caseload"} ELSE {})
          \cup (IF breakdown.experience > 60 * TotalScale THEN {"experience"} ELSE {})
  IN  IF reasons = {} THEN {"best available"} ELSE reasons

\* User.find({role: 'therapist', active: true})
RECURSIVE SelectSeq2(_, _)
SelectSeq2(seq, keep) ==
  IF seq = <<>> THEN <<>>
  ELSE IF Head(seq) \in keep THEN <<Head(seq)>> \o SelectSeq2(Tail(seq), keep)
  ELSE SelectSeq2(Tail(seq), keep)

ActiveTherapists ==
  SelectSeq2(docs.order,
             {u \in DOMAIN docs.therapists :
                UserRole[u] = "therapist" /\ docs.therapists[u].active})

\* a comparator that puts the later of two equal scores first
compareScoreLaterFirst(a, b) == IF a.score = b.score THEN 1 ELSE b.score - a.score

\* the comparator handed to sort: (a, b) => b.score - a.score
compareScore(a, b) == b.score - a.score

\* Array.prototype.sort is stable: an element stays behind every earlier
\* element for which the comparator is not positive; highest score first
RECURSIVE InsertByScore(_, _)
InsertByScore(sorted, x) ==
  IF sorted = <<>> THEN <<x>>
  ELSE IF compareScore(Head(sorted), x) <= 0
         THEN <<Head(sorted)>> \o InsertByScore(Tail(sorted), x)
         ELSE <<x>> \o sorted

RECURSIVE SortByScore(_)
SortByScore(seq) ==
  IF seq = <<>> THEN <<>>
  ELSE InsertByScore(SortByScore(SubSeq(seq, 1, Len(seq) - 1)), seq[Len(seq)])

ScoredTherapists(patientId, ptr) ==
  [i \in 1..Len(ActiveTherapists) |->
     LET t == ActiveTherapists[i]
         sc == calculateTherapistScore(docs.patients[patientId], docs.therapists[t],
                                       CurrentCaseload(t, ptr))
     IN  [therapist |-> t, score |-> sc.total, breakdown |-> sc.breakdown]]

(***************************************************************************)
(* Collections written by the assignment operations.                       *)
(***************************************************************************)
\* paths of AssignmentSchema; the schema is strict, so Assignment.create
\* keeps these keys of its argument and drops every other key
AssignmentPaths == {"patient", "therapist", "supervisor", "method", "rationale"}

StrictAssignment(input) == [f \in AssignmentPaths |-> input[f]]

\* validators of AssignmentSchema: patient, therapist and method are required
AssignmentValid(doc) ==
  /\ doc.patient # Null
  /\ doc.therapist # Null
  /\ doc.method \in {"auto", "manual"}

\* the object handed to Assignment.create by the three operations
AssignmentInput(patient, therapist, supervisor, method, rationale, score, previous) ==
  [patient |-> patient, therapist |-> therapist, supervisor |-> supervisor,
   method |-> method, rationale |-> rationale,
   score |-> score, previousTherapist |-> previous]

AuditActions ==
  {"create", "update", "delete", "assign_patient", "reassign_patient",
   "submit_plan", "approve_plan", "revise_plan", "log_session", "submit_report",
   "review_report", "rate_therapist", "change_role", "export_data", "import_data"}

AuditEntityTypes ==
  {"User", "Patient", "Assignment", "TherapyPlan", "Session", "ProgressReport",
   "ClinicalRating"}

\* an audit helper that lets the rejection of its insert reach the caller
logActionRethrows(log, actorUserId, action, entityType, entityId, rejected) ==
  IF rejected THEN [log |-> log, threw |-> TRUE]
  ELSE [log |-> Append(log, [actorUser |-> actorUserId, action |-> action,
                             entityType |-> entityType, entityId |-> entityId]),
        threw |-> FALSE]

\* AuditLog.logAction: create the entry; a rejected insert is caught and logged
\* to the console, and nothing is thrown to the caller
logAction(log, actorUserId, action, entityType, entityId, rejected) ==
  IF /\ actorUserId # Null
     /\ action \in AuditActions
     /\ entityType \in AuditEntityTypes
     /\ entityId # NoId
     /\ ~rejected
    THEN [log |-> Append(log, [actorUser |-> actorUserId, action |-> action,
                               entityType |-> entityType, entityId |-> entityId]),
          threw |-> FALSE]
    ELSE [log |-> log, threw |-> FALSE]

NotificationTypes ==
  {"plan_submitted", "plan_approved", "plan_needs_revision", "session_reminder",
   "report_due", "report_submitted", "assignment_changed", "rating_received",
   "system_alert"}

\* Notification.createNotification (model static): create the document; a
\* rejected insert is logged and thrown again
NotificationCreate(ns, toUser, type, rejected) ==
  IF toUser # Null /\ type \in NotificationTypes /\ ~rejected
    THEN [ns |-> Append(ns, [toUser |-> toUser, type |-> type]),
          result |-> "notification", threw |-> FALSE]
    ELSE [ns |-> ns, result |-> Null, threw |-> TRUE]

\* NotificationService.createNotification: whatever the model static throws is
\* caught and null is returned
createNotification(ns, toUser, type, rejected) ==
  LET created == NotificationCreate(ns, toUser, type, rejected)
  IN  IF created.threw THEN [ns |-> created.ns, result |-> Null, threw |-> FALSE]
      ELSE created

(***************************************************************************)
(* The store calls of a request run one after the other; a call that       *)
(* throws ends the request, and the calls after it are not made.           *)
(***************************************************************************)
StoreNow ==
  [assignments |-> assignments, pointer |-> pointer, audit |-> audit,
   notifications |-> notifications, error |-> "none"]

\* store calls in which the pointer of an assigned patient is not overwritten
StoreCallKeepsPointer(st, c, rejected) ==
  CASE c.call = "assignment_insert" ->
         IF ~AssignmentValid(StrictAssignment(c.doc))
                THEN [st EXCEPT !.error = "Assignment validation failed"]
         ELSE [st EXCEPT !.assignments = Append(@, StrictAssignment(c.doc))]
    [] c.call = "patient_update" ->
         IF st.pointer[c.patient] # Null /\ c.value # Null THEN st
         ELSE [st EXCEPT !.pointer = [@ EXCEPT ![c.patient] = c.value]]
    [] c.call = "audit_insert" ->
         [st EXCEPT !.audit = logAction(st.audit, c.actor, c.action, "Assignment",
                                        c.entityId, rejected).log]
    [] c.call = "notification_insert" ->
         [st EXCEPT !.notifications =
            createNotification(st.notifications, c.toUser, c.type, rejected).ns]

StoreCall(st, c, rejected) ==
  CASE c.call = "assignment_insert" ->
         IF rejected THEN [st EXCEPT !.error = "Store error"]
         ELSE IF ~AssignmentValid(StrictAssignment(c.doc))
                THEN [st EXCEPT !.error = "Assignment validation failed"]
         ELSE [st EXCEPT !.assignments = Append(@, StrictAssignment(c.doc))]
    [] c.call = "patient_update" ->
         IF rejected THEN [st EXCEPT !.error = "Store error"]
         ELSE [st EXCEPT !.pointer = [@ EXCEPT ![c.patient] = c.value]]
    [] c.call = "audit_insert" ->
         LET r == logAction(st.audit, c.actor, c.action, "Assignment", c.entityId,
                            rejected)
         IN  [st EXCEPT !.audit = r.log,
                        !.error = IF r.threw THEN "Store error" ELSE @]
    [] c.call = "notification_insert" ->
         LET r == createNotification(st.notifications, c.toUser, c.type, rejected)
         IN  [st EXCEPT !.notifications = r.ns,
                        !.error = IF r.threw THEN "Store error" ELSE @]

RECURSIVE RunCalls(_, _, _)
RunCalls(st, calls, rejected) ==
  IF calls = <<>> \/ st.error # "none" THEN st
  ELSE RunCalls(StoreCall(st, Head(calls), Head(calls).call \in rejected),
                Tail(calls), rejected)

(***************************************************************************)
(* Requests of the assignment routes.                                      *)
(***************************************************************************)
\* req.auth as verifyAuth leaves it: a stored user with its role, or the
\* development fallback identity, which is no stored user
Actors ==
  {[userId |-> "s1", role |-> "supervisor"],
   [userId |-> "t2", role |-> "therapist"],
   [userId |-> "dev", role |-> "supervisor"]}

PatientIdInputs == Patients \cup {"p9"}
TherapistIdInputs ==
  {IdString(o, u) : o \in {"t1", "t2", "s1", "u9"}, u \in BOOLEAN}
AssignmentIdInputs == 1..(MaxAssignments + 1)
ReasonInputs == {Missing}

\* a role check that also lets the therapist role through
MayAssignAnyStaff(role) == role \in {"supervisor", "admin", "therapist"}

MayAssign(role) == role \in {"supervisor", "admin"}

AssignResponse(op, code, error, actor, patient, therapist, target, rejected) ==
  [op |-> op, code |-> code, error |-> error, actor |-> actor.userId,
   patient |-> patient, therapist |-> therapist, target |-> target,
   rejected |-> rejected]

\* what a request leaves behind: the collections and the response
Outcome(st, response) ==
  [assignments |-> st.assignments, pointer |-> st.pointer, audit |-> st.audit,
   notifications |-> st.notifications, response |-> response]

\* the request is served: the store and `last` take the outcome
Serve(o) ==
  /\ Len(o.assignments) <= MaxAssignments
  /\ assignments' = o.assignments
  /\ pointer' = o.pointer
  /\ audit' = o.audit
  /\ notifications' = o.notifications
  /\ last' = o.response
  /\ UNCHANGED <<planVars, docs, env, inflight>>

\* the error thrown by autoAssignPatient before its first write, or "none"
AutoAssignError(patientId, ptr) ==
  IF patientId \notin Patients THEN "Patient not found"
  ELSE IF Len(ActiveTherapists) = 0 THEN "No available therapists found"
  ELSE IF SortByScore(ScoredTherapists(patientId, ptr))[1].score <= 0
         THEN "No suitable therapist found for this patient"
  ELSE "none"

\* the store writes of auto-assign in the order the code makes them: the
\* record, the pointer and the audit entry in autoAssignPatient, then the
\* notification in the route handler
AutoAssignCalls(actor, patientId, bestMatch) ==
  <<[call |-> "assignment_insert",
     doc |-> AssignmentInput(patientId, bestMatch.therapist, actor.userId, "auto",
                             generateRationale(bestMatch.breakdown),
                             bestMatch.score, Null)
              @@ [scoreBreakdown |-> bestMatch.breakdown]],
    [call |-> "patient_update", patient |-> patientId, value |-> bestMatch.therapist],
    [call |-> "audit_insert", actor |-> actor.userId, action |-> "assign_patient",
     entityId |-> Len(assignments) + 1],
    [call |-> "notification_insert", toUser |-> bestMatch.therapist,
     type |-> "assignment_changed"]>>

AutoAssignOutcome(actor, patientId, rejected) ==
  LET error == AutoAssignError(patientId, pointer)
      bestMatch == SortByScore(ScoredTherapists(patientId, pointer))[1]
      st == RunCalls(StoreNow, AutoAssignCalls(actor, patientId, bestMatch), rejected)
  IN
  IF ~MayAssign(actor.role)
    THEN Outcome(StoreNow,
                 AssignResponse("auto", 403, "Forbidden", actor, Null, Null, NoId, {}))
  ELSE IF error # "none"
    THEN Outcome(StoreNow,
                 AssignResponse("auto", 500, error, actor, patientId, Null, NoId,
                                rejected))
  ELSE IF st.error # "none"
    THEN Outcome(st, AssignResponse("auto", 500, st.error, actor, patientId, Null,
                                    NoId, rejected))
  ELSE Outcome(st, AssignResponse("auto", 201, "none", actor, patientId,
                                  bestMatch.therapist, Len(assignments) + 1, rejected))

\* POST /api/assignments/auto-assign, with AssignmentService.autoAssignPatient
AutoAssign(actor, patientId, rejected) ==
  Serve(AutoAssignOutcome(actor, patientId, rejected))

\* the checks of manualAssignPatient with the authorizer checked before the target
ManualAssignErrorAuthFirst(patientId, therapistId, supervisorId, ptr) ==
  IF patientId \notin Patients THEN "Patient not found"
  ELSE IF supervisorId \notin Users \/ ~MayAssign(UserRole[supervisorId])
         THEN "Unauthorized: Only supervisors can assign patients"
  ELSE IF \/ CastObjectId(therapistId) \notin Users
          \/ UserRole[CastObjectId(therapistId)] # "therapist"
         THEN "Invalid therapist"
  ELSE IF ptr[patientId] # Null /\ ObjectIdToString(ptr[patientId]) = therapistId
         THEN "Patient is already assigned to this therapist"
  ELSE "none"

\* the error thrown by manualAssignPatient before its first write, or "none"
ManualAssignError(patientId, therapistId, supervisorId, ptr) ==
  IF patientId \notin Patients THEN "Patient not found"
  ELSE IF \/ CastObjectId(therapistId) \notin Users
          \/ UserRole[CastObjectId(therapistId)] # "therapist"
         THEN "Invalid therapist"
  ELSE IF supervisorId \notin Users \/ ~MayAssign(UserRole[supervisorId])
         THEN "Unauthorized: Only supervisors can assign patients"
  ELSE IF ptr[patientId] # Null /\ ObjectIdToString(ptr[patientId]) = therapistId
         THEN "Patient is already assigned to this therapist"
  ELSE "none"

\* the store writes of manual-assign with the audit entry written first
ManualAssignCallsAuditFirst(actor, patientId, therapist, reason) ==
  <<[call |-> "audit_insert", actor |-> actor.userId, action |-> "assign_patient",
     entityId |-> Len(assignments) + 1],
    [call |-> "assignment_insert",
     doc |-> AssignmentInput(patientId, therapist, actor.userId, "manual",
                             "Manual assignment by supervisor", Null,
                             pointer[patientId])],
    [call |-> "patient_update", patient |-> patientId, value |-> therapist],
    [call |-> "notification_insert", toUser |-> therapist,
     type |-> "assignment_changed"]>>

\* the store writes of manual-assign in the order the code makes them
ManualAssignCalls(actor, patientId, therapist, reason) ==
  <<[call |-> "assignment_insert",
     doc |-> AssignmentInput(patientId, therapist, actor.userId, "manual",
                             IF reason = Missing THEN "Manual assignment by supervisor"
                                                 ELSE reason,
                             Null, pointer[patientId])],
    [call |-> "patient_update", patient |-> patientId, value |-> therapist],
    [call |-> "audit_insert", actor |-> actor.userId,
     action |-> IF pointer[patientId] # Null THEN "reassign_patient"
                                             ELSE "assign_patient",
     entityId |-> Len(assignments) + 1],
    [call |-> "notification_insert", toUser |-> therapist,
     type |-> "assignment_changed"]>>

ManualAssignOutcome(actor, patientId, therapistId, reason, rejected) ==
  LET therapist == CastObjectId(therapistId)
      error == ManualAssignError(patientId, therapistId, actor.userId, pointer)
      st == RunCalls(StoreNow, ManualAssignCalls(actor, patientId, therapist, reason),
                     rejected)
  IN
  IF ~MayAssign(actor.role)
    THEN Outcome(StoreNow,
                 AssignResponse("manual", 403, "Forbidden", actor, Null, Null, NoId, {}))
  ELSE IF error # "none"
    THEN Outcome(StoreNow,
                 AssignResponse("manual", 500, error, actor, patientId, therapist,
                                NoId, rejected))
  ELSE IF st.error # "none"
    THEN Outcome(st, AssignResponse("manual", 500, st.error, actor, patientId,
                                    therapist, NoId, rejected))
  ELSE Outcome(st, AssignResponse("manual", 201, "none", actor, patientId, therapist,
                                  Len(assignments) + 1, rejected))

\* POST /api/assignments/manual-assign, with AssignmentService.manualAssignPatient
ManualAssign(actor, patientId, therapistId, reason, rejected) ==
  Serve(ManualAssignOutcome(actor, patientId, therapistId, reason, rejected))

\* the store writes of unassign in the order the code makes them: the pointer
\* is cleared first, then the record is created, then the alert is sent
UnassignCalls(actor, assignment) ==
  <<[call |-> "patient_update", patient |-> assignment.patient, value |-> Null],
    [call |-> "assignment_insert",
     doc |-> AssignmentInput(assignment.patient, Null, actor.userId, "manual",
                             "Unassigned by supervisor", Null, assignment.therapist)],
    [call |-> "notification_insert", toUser |-> assignment.therapist,
     type |-> "system_alert"]>>

UnassignOutcome(actor, id, reason, rejected) ==
  IF ~MayAssign(actor.role)
    THEN Outcome(StoreNow,
                 AssignResponse("unassign", 403, "Forbidden", actor, Null, Null, NoId, {}))
  ELSE IF id \notin 1..Len(assignments)
    THEN Outcome(StoreNow,
                 AssignResponse("unassign", 404, "Assignment not found", actor, Null,
                                Null, id, rejected))
  ELSE
    LET assignment == assignments[id]
        st == RunCalls(StoreNow, UnassignCalls(actor, assignment), rejected)
    IN  IF st.error # "none"
          THEN Outcome(st, AssignResponse("unassign", 500, st.error, actor,
                                          assignment.patient, Null, id, rejected))
          ELSE Outcome(st, AssignResponse("unassign", 200, "none", actor,
                                          assignment.patient, Null, id, rejected))

\* POST /api/assignments/:id/unassign
Unassign(actor, id, reason, rejected) ==
  Serve(UnassignOutcome(actor, id, reason, rejected))

\* the store rejects no write
NextAssign ==
  \/ \E a \in Actors, p \in PatientIdInputs : AutoAssign(a, p, {})
  \/ \E a \in Actors, p \in PatientIdInputs, t \in TherapistIdInputs, r \in ReasonInputs :
        ManualAssign(a, p, t, r, {})
  \/ \E a \in Actors, id \in AssignmentIdInputs, r \in ReasonInputs :
        Unassign(a, id, r, {})

SpecAssign == Init /\ [][NextAssign]_vars

(***************************************************************************)
(* The assignment routes with a store that may reject a write, with       *)
(* caregivers that may be inactive, and with the statistics route.         *)
(***************************************************************************)
\* GET /api/assignments/stats: the role check, then a read of the collection
StatsOutcome(actor) ==
  IF ~MayAssign(actor.role)
    THEN Outcome(StoreNow,
                 AssignResponse("stats", 403, "Forbidden", actor, Null, Null, NoId, {}))
    ELSE Outcome(StoreNow,
                 AssignResponse("stats", 200, "none", actor, Null, Null, NoId, {}))

Stats(actor) == Serve(StatsOutcome(actor))

\* the writes of one request that the store rejects
RejectInputs ==
  {{}, {"assignment_insert"}, {"patient_update"}, {"audit_insert"},
   {"notification_insert"}, {"audit_insert", "notification_insert"}}

OpsActors == {[userId |-> "s1", role |-> "supervisor"]}
OpsTherapistIds == {IdString(o, FALSE) : o \in {"t1", "t2"}}
OpsAssignmentIds == 1..(MaxOpsRecords + 1)

\* a supervisor's requests against a store that may reject a write
NextOps ==
  /\ \/ \E a \in OpsActors, p \in Patients, rej \in RejectInputs :
          AutoAssign(a, p, rej)
     \/ \E a \in OpsActors, p \in Patients, t \in OpsTherapistIds,
           r \in ReasonInputs, rej \in RejectInputs : ManualAssign(a, p, t, r, rej)
     \/ \E a \in OpsActors, id \in OpsAssignmentIds, r \in ReasonInputs,
           rej \in RejectInputs : Unassign(a, id, r, rej)
  /\ Len(assignments') <= MaxOpsRecords

SpecOps == Init /\ [][NextOps]_vars

\* the identity verifyAuth builds from the x-test-role header has the role the
\* header names and an id that is no stored user
GuardActors == Actors \cup {[userId |-> "test", role |-> "viewer"]}

GuardTherapistIds == {IdString(o, FALSE) : o \in {"t1", "t2", "s1", "u9"}}
GuardAssignmentIds == 1..(MaxGuardRecords + 1)

\* any of the caregivers may have been deactivated
InitGuard ==
  /\ plans = <<>>
  /\ everLeftDraft = <<>>
  /\ now = 1
  /\ audit = <<>>
  /\ notifications = <<>>
  /\ pointer = [p \in Patients |-> Null]
  /\ assignments = <<>>
  /\ \E act \in [DOMAIN SeedDocs.therapists -> BOOLEAN] :
        docs = [SeedDocs EXCEPT !.therapists =
                  [t \in DOMAIN SeedDocs.therapists |->
                     [SeedDocs.therapists[t] EXCEPT !.active = act[t]]]]
  /\ env = ConfiguredEnv
  /\ inflight = NoCalls
  /\ last = Response("none", 0, 0, Missing, Missing)

\* requests of every role and with every kind of target, the store rejecting
\* no write
NextGuard ==
  /\ \/ \E a \in GuardActors, p \in PatientIdInputs : AutoAssign(a, p, {})
     \/ \E a \in GuardActors, p \in PatientIdInputs, t \in GuardTherapistIds,
           r \in ReasonInputs : ManualAssign(a, p, t, r, {})
     \/ \E a \in GuardActors, id \in GuardAssignmentIds, r \in ReasonInputs :
           Unassign(a, id, r, {})
     \/ \E a \in GuardActors : Stats(a)
  /\ Len(assignments') <= MaxGuardRecords

SpecGuard == InitGuard /\ [][NextGuard]_vars

(***************************************************************************)
(* The scorer and the selection of auto-assign over stores with other      *)
(* caregiver profiles and patients than the seeded ones.                   *)
(***************************************************************************)
Pain == <<"p","a","i","n">>

TagInputs == {<<>>, <<ChronicPain>>, <<ChronicPain, Pain>>}
DiagnosisInputs == {<<>>, <<Pain>>}
SpecialtyInputs ==
  {<<>>, <<PainManagement>>, <<Pain>>, <<Pain, PainManagement, Pain, PainManagement>>}
\* availabilitySchema: weeklySlots is a number from 0 to 80, or absent
SlotInputs == {NoSlots, 0, 5, 10, 20, 30, 40, 80}
YearInputs == {0, 5, 8, 30}
CaseloadInputs == {0, 5, 8, 10, 15, 22, 25}

PatientProfiles ==
  {[tags |-> tg, diagnoses |-> dg, caseStatus |-> "active"] :
     tg \in TagInputs, dg \in DiagnosisInputs}

\* every kind of caregiver profile
FullProfiles ==
  {[active |-> TRUE, specialties |-> sp, weeklySlots |-> ws,
    yearsExperience |-> y, otherCaseload |-> c] :
     sp \in SpecialtyInputs, ws \in SlotInputs, y \in YearInputs,
     c \in CaseloadInputs}

\* profiles close enough to each other for equal totals
PairProfiles ==
  {[active |-> ac, specialties |-> sp, weeklySlots |-> ws,
    yearsExperience |-> 5, otherCaseload |-> c] :
     ac \in BOOLEAN, sp \in {<<>>, <<PainManagement>>}, ws \in {20, 30},
     c \in {8, 22}}

\* the orders in which User.find can return the stored users
OrderInputs == {UserOrder, <<"t2", "t1", "s1", "a1">>}

ScoreDocs ==
  {[therapists |-> [t1 |-> a, t2 |-> SeedDocs.therapists["t2"]],
    patients |-> [p1 |-> pp], order |-> UserOrder] :
     a \in FullProfiles, pp \in PatientProfiles}
  \cup
  {[therapists |-> [t1 |-> a, t2 |-> b], patients |-> [p1 |-> pp], order |-> o] :
     a \in PairProfiles, b \in PairProfiles,
     pp \in {q \in PatientProfiles : q.diagnoses = <<>> /\ Len(q.tags) <= 1},
     o \in OrderInputs}

InitScore ==
  /\ plans = <<>>
  /\ everLeftDraft = <<>>
  /\ now = 1
  /\ audit = <<>>
  /\ notifications = <<>>
  /\ pointer = [p \in Patients |-> Null]
  /\ assignments = <<>>
  /\ docs \in ScoreDocs
  /\ env = ConfiguredEnv
  /\ inflight = NoCalls
  /\ last = Response("none", 0, 0, Missing, Missing)

\* calculateTherapistScore applied to a stored caregiver and patient
Score(t, p) ==
  LET sc == calculateTherapistScore(docs.patients[p], docs.therapists[t],
                                    CurrentCaseload(t, pointer))
  IN  /\ last' = [op |-> "score", therapist |-> t, patient |-> p,
                  total |-> sc.total, breakdown |-> sc.breakdown]
      /\ UNCHANGED <<planVars, assignVars, audit, notifications, docs, env, inflight>>

NextScore ==
  /\ \/ \E t \in DOMAIN SeedDocs.therapists, p \in Patients : Score(t, p)
     \/ \E a \in OpsActors, p \in Patients : AutoAssign(a, p, {})
  /\ Len(assignments') <= MaxScoreRecords

SpecScore == InitScore /\ [][NextScore]_vars

(***************************************************************************)
(* Overlapping assign requests.  A request reads the store once, when its  *)
(* service method looks up the patient, the users and the caseloads, and   *)
(* then makes its writes one await at a time; the steps of another request *)
(* can run between any two of them.                                        *)
(***************************************************************************)
\* the requests that passed their checks and have not inserted their record
PendingInserts ==
  {c \in Callers :
     /\ inflight[c].pc = "running"
     /\ Head(inflight[c].todo).call = "assignment_insert"}

\* the route's role check and the service's lookups and checks; the writes
\* the request is going to make take their arguments from what was read here
RaceBegin(c, op, actor, patientId, therapistId) ==
  LET error == IF op = "auto" THEN AutoAssignError(patientId, pointer)
               ELSE ManualAssignError(patientId, therapistId, actor.userId, pointer)
      bestMatch == SortByScore(ScoredTherapists(patientId, pointer))[1]
      therapist == IF op = "auto" THEN bestMatch.therapist
                   ELSE CastObjectId(therapistId)
      todo == IF op = "auto" THEN AutoAssignCalls(actor, patientId, bestMatch)
              ELSE ManualAssignCalls(actor, patientId, therapist, Missing)
  IN
  /\ inflight[c].pc = "idle"
  /\ Len(assignments) + Cardinality(PendingInserts) < MaxRaceRecords
  /\ IF ~MayAssign(actor.role)
       THEN /\ last' = AssignResponse(op, 403, "Forbidden", actor, Null, Null, NoId, {})
            /\ UNCHANGED inflight
     ELSE IF error # "none"
       THEN /\ last' = AssignResponse(op, 500, error, actor, patientId, Null, NoId, {})
            /\ UNCHANGED inflight
     ELSE /\ inflight' = [inflight EXCEPT ![c] =
                            [pc |-> "running", op |-> op, actor |-> actor,
                             patient |-> patientId, therapist |-> therapist,
                             todo |-> todo, recordId |-> NoId]]
          /\ UNCHANGED last
  /\ UNCHANGED <<planVars, assignVars, audit, notifications, docs, env>>

\* the next awaited store call of a request in flight; the audit entry names
\* the _id of the record the request inserted; after the last call the route
\* answers
RaceStep(c) ==
  /\ inflight[c].pc = "running"
  /\ LET me == inflight[c]
         call == Head(me.todo)
         bound == IF call.call = "audit_insert"
                    THEN [call EXCEPT !.entityId = me.recordId]
                    ELSE call
         st == StoreCall(StoreNow, bound, FALSE)
         rest == Tail(me.todo)
     IN  /\ assignments' = st.assignments
         /\ pointer' = st.pointer
         /\ audit' = st.audit
         /\ notifications' = st.notifications
         /\ IF st.error # "none"
              THEN /\ inflight' = [inflight EXCEPT ![c] = [pc |-> "idle"]]
                   /\ last' = AssignResponse(me.op, 500, st.error, me.actor,
                                             me.patient, Null, NoId, {})
            ELSE IF rest = <<>>
              THEN /\ inflight' = [inflight EXCEPT ![c] = [pc |-> "idle"]]
                   /\ last' = AssignResponse(me.op, 201, "none", me.actor,
                                             me.patient, me.therapist, me.recordId, {})
            ELSE /\ inflight' = [inflight EXCEPT ![c] =
                                   [me EXCEPT !.todo = rest,
                                              !.recordId =
                                                 IF call.call = "assignment_insert"
                                                   THEN Len(st.assignments) ELSE @]]
                 /\ UNCHANGED last
  /\ UNCHANGED <<planVars, docs, env>>

NextRace ==
  \E c \in Callers :
     \/ \E op \in {"auto", "manual"}, a \in OpsActors, p \in Patients, t \in OpsTherapistIds :
           RaceBegin(c, op, a, p, t)
     \/ RaceStep(c)

SpecRace == Init /\ [][NextRace]_vars

(***************************************************************************)
(* Authentication middleware.                                              *)
(***************************************************************************)
\* the environments the server starts in: in production SKIP_DB or SKIP_AUTH
\* set, or MONGODB_URI unset, throw at startup; CLERK_SECRET_KEY unset only
\* warns
StartableEnvs ==
  {e \in [nodeEnv : {"development", "test", "production"},
          skipAuth : BOOLEAN, skipDb : BOOLEAN,
          hasSecret : BOOLEAN, hasMongoUri : BOOLEAN] :
     e.nodeEnv = "production" =>
        /\ ~e.skipDb
        /\ ~e.skipAuth
        /\ e.hasMongoUri}

DEV_FALLBACK_USER_ID == "68af0aa5ec05fb08d70226d2"
TEST_USER_ID == "000000000000000000000000"
NoAuth == [userId |-> Null, role |-> Null, clerkUserId |-> Null]

\* Authorization headers: absent, another scheme, and bearer tokens that
\* verifyToken accepts or rejects, with or without a role in their metadata
AuthHeaders ==
  {[scheme |-> "none", valid |-> FALSE, role |-> Missing],
   [scheme |-> "Basic", valid |-> FALSE, role |-> Missing],
   [scheme |-> "Bearer", valid |-> FALSE, role |-> "admin"],
   [scheme |-> "Bearer", valid |-> TRUE, role |-> Missing],
   [scheme |-> "Bearer", valid |-> TRUE, role |-> "admin"]}

\* requests: the x-test-role header, the Authorization header, whether the
\* connection is ready and the role of the User mapped to the token's subject
AuthRequests ==
  [testRole : {Missing, "admin"},
   authorization : AuthHeaders,
   dbReady : BOOLEAN,
   userRole : {Missing, "supervisor"}]

\* what verifyAuth does with a request: next() with req.auth set, or 401
verifyAuth(e, req) ==
  LET skipAuth == e.nodeEnv # "production" /\ e.skipAuth
      bearer == req.authorization.scheme = "Bearer"
      tokenRole == IF req.authorization.role # Missing
                     THEN req.authorization.role ELSE "therapist"
      mapped == req.dbReady /\ req.userRole # Missing
  IN
  IF e.nodeEnv = "test" /\ req.testRole # Missing
    THEN [code |-> 0, error |-> "none", passed |-> TRUE, verified |-> FALSE,
          auth |-> [userId |-> TEST_USER_ID, role |-> req.testRole,
                    clerkUserId |-> "test_user"]]
  ELSE IF skipAuth \/ ~e.hasSecret
    THEN [code |-> 0, error |-> "none", passed |-> TRUE, verified |-> FALSE,
          auth |-> [userId |-> DEV_FALLBACK_USER_ID, role |-> "supervisor",
                    clerkUserId |-> "dev_clerk_user"]]
  ELSE IF ~bearer
    THEN [code |-> 401, error |-> "Missing Authorization header",
          passed |-> FALSE, verified |-> FALSE, auth |-> NoAuth]
  ELSE IF ~req.authorization.valid
    THEN [code |-> 401, error |-> "Invalid or expired token",
          passed |-> FALSE, verified |-> FALSE, auth |-> NoAuth]
  ELSE [code |-> 0, error |-> "none", passed |-> TRUE, verified |-> TRUE,
        auth |-> [userId |-> IF mapped THEN "mongo_user" ELSE DEV_FALLBACK_USER_ID,
                  role |-> IF mapped THEN req.userRole ELSE tokenRole,
                  clerkUserId |-> "clerk_sub"]]

InitAuth ==
  /\ plans = <<>>
  /\ everLeftDraft = <<>>
  /\ now = 1
  /\ audit = <<>>
  /\ notifications = <<>>
  /\ pointer = [p \in Patients |-> Null]
  /\ assignments = <<>>
  /\ docs = SeedDocs
  /\ env \in StartableEnvs
  /\ inflight = NoCalls
  /\ last = [op |-> "none"]

\* a request to a router mounted behind verifyAuth
Authenticate(req) ==
  /\ last' = [op |-> "auth", request |-> req] @@ verifyAuth(env, req)
  /\ UNCHANGED <<planVars, assignVars, audit, notifications, docs, env, inflight>>

NextAuth == \E req \in AuthRequests : Authenticate(req)

SpecAuth == InitAuth /\ [][NextAuth]_vars

(***************************************************************************)
(* DELETE requests to the notifications router.  Time is counted in days.  *)
(***************************************************************************)
\* the DELETE routes of the router in the order they are registered
DeleteRoutes ==
  <<[path |-> ":id", handler |-> "deleteNotification"],
    [path |-> "cleanup", handler |-> "cleanup"]>>

\* the path segment after /api/notifications/: its text, and the _id it casts
\* to (NoId when it is no ObjectId)
PathSegments ==
  {[text |-> "cleanup", oid |-> NoId]}
    \cup {[text |-> "objectid", oid |-> i] : i \in 1..(MaxCleanupNotes + 1)}

\* a parameter segment matches any text, a literal one only its own
Matches(route, segment) ==
  route.path = ":id" \/ route.path = segment.text

\* the handler of the first registered route that matches
RouteFor(segment) ==
  LET first == CHOOSE i \in 1..Len(DeleteRoutes) :
                 /\ Matches(DeleteRoutes[i], segment)
                 /\ \A j \in 1..(i - 1) : ~Matches(DeleteRoutes[j], segment)
  IN  DeleteRoutes[first].handler

DefaultDaysOld == 90
\* const { daysOld = 90 } = req.query; parseInt(daysOld)
ParseDaysOld(q) == IF q = Missing THEN DefaultDaysOld ELSE 2

CleanupActors ==
  {[userId |-> "a1", role |-> "admin"],
   [userId |-> "t1", role |-> "therapist"]}

\* router.delete("/:id"): a segment that is no ObjectId fails the cast of the
\* filter and is answered 500; only the recipient's own notification is deleted
deleteNotification(ns, e, actor, segment) ==
  LET own(n) == n.id = segment.oid /\ n.toUser = actor.userId
  IN  IF e.nodeEnv # "production" /\ e.skipDb
        THEN [ns |-> ns, code |-> 404, error |-> "Notification not found"]
      ELSE IF segment.oid = NoId
        THEN [ns |-> ns, code |-> 500, error |-> "Failed to delete notification"]
      ELSE IF ~\E i \in 1..Len(ns) : own(ns[i])
        THEN [ns |-> ns, code |-> 404, error |-> "Notification not found"]
      ELSE [ns |-> SelectSeq(ns, LAMBDA n : ~own(n)), code |-> 200, error |-> "none"]

\* NotificationService.deleteOldNotifications
deleteOldNotifications(ns, today, daysOld) ==
  LET cutoffDate == today - daysOld
      old(n) == n.createdAt < cutoffDate /\ n.read
  IN  SelectSeq(ns, LAMBDA n : ~old(n))

\* router.delete("/cleanup")
cleanup(ns, today, actor, daysOld) ==
  IF actor.role # "admin"
    THEN [ns |-> ns, code |-> 403, error |-> "Only administrators can perform cleanup"]
    ELSE [ns |-> deleteOldNotifications(ns, today, ParseDaysOld(daysOld)),
          code |-> 200, error |-> "none"]

\* stored notifications: recipient, read flag and day of creation
StoredNotes ==
  [toUser : {"a1", "t1"}, type : {"system_alert"}, read : BOOLEAN,
   createdAt : {1, MaxNow - 1}]

InitCleanup ==
  /\ plans = <<>>
  /\ everLeftDraft = <<>>
  /\ now = MaxNow
  /\ audit = <<>>
  /\ \E n \in 0..MaxCleanupNotes :
        \E f \in [1..n -> StoredNotes] :
           notifications = [i \in 1..n |-> [id |-> i] @@ f[i]]
  /\ pointer = [p \in Patients |-> Null]
  /\ assignments = <<>>
  /\ docs = SeedDocs
  /\ env \in {ConfiguredEnv, [ConfiguredEnv EXCEPT !.skipDb = TRUE]}
  /\ inflight = NoCalls
  /\ last = [op |-> "none"]

\* DELETE /api/notifications/<segment>?daysOld=<daysOld>
DeleteRequest(actor, segment, daysOld) ==
  LET handler == RouteFor(segment)
      out == IF handler = "cleanup"
               THEN cleanup(notifications, now, actor, daysOld)
               ELSE deleteNotification(notifications, env, actor, segment)
  IN  /\ notifications' = out.ns
      /\ last' = [op |-> "DELETE", actor |-> actor, segment |-> segment,
                  daysOld |-> daysOld, handler |-> handler, code |-> out.code,
                  error |-> out.error, before |-> notifications]
      /\ UNCHANGED <<planVars, assignVars, audit, docs, env, inflight>>

NextCleanup ==
  \E actor \in CleanupActors, segment \in PathSegments, daysOld \in {Missing, "2"} :
     DeleteRequest(actor, segment, daysOld)

SpecCleanup == InitCleanup /\ [][NextCleanup]_vars

(***************************************************************************)
(* Review workflow properties.                                             *)
(***************************************************************************)
Failed(code) == code >= 400
PlanIds == 1..Len(plans)
ReviewedStatuses == {"approved", "needs_revision"}

\* C1: review succeeds only on a plan whose status is submitted; on a draft,
\* approved or needs_revision plan it fails and leaves status, reviewedAt and
\* supervisor comments unchanged; so no step takes a plan from draft straight
\* to approved, and no step takes an approved plan to another status.
C1_ReviewOnlyFromSubmitted ==
  [][ /\ (last'.op = "review" /\ PlanExists(last'.id)
            /\ plans[last'.id].status # "submitted")
         => /\ Failed(last'.code)
            /\ plans'[last'.id].status = plans[last'.id].status
            /\ plans'[last'.id].reviewedAt = plans[last'.id].reviewedAt
            /\ plans'[last'.id].supervisorComments = plans[last'.id].supervisorComments
      /\ \A p \in PlanIds :
            /\ plans[p].status = "draft" => plans'[p].status # "approved"
            /\ plans[p].status = "approved" => plans'[p].status = "approved"
    ]_vars

\* C2: submit succeeds only on a plan whose status is draft or needs_revision;
\* on a submitted or approved plan it fails and leaves status and submittedAt
\* unchanged.
C2_SubmitOnlyFromDraftOrRevision ==
  [][ (last'.op = "submit" /\ PlanExists(last'.id)
         /\ plans[last'.id].status \in {"submitted", "approved"})
      => /\ Failed(last'.code)
         /\ plans'[last'.id].status = plans[last'.id].status
         /\ plans'[last'.id].submittedAt = plans[last'.id].submittedAt
    ]_vars

\* C3: a review whose decision is not approved or needs_revision is rejected
\* and changes nothing, and every stored plan's status stays inside the
\* status enumeration.
C3_DecisionValidated ==
  [][ /\ (last'.op = "review" /\ last'.decision \notin ReviewedStatuses)
         => (Failed(last'.code) /\ plans' = plans)
      /\ \A p \in 1..Len(plans') : plans'[p].status \in PlanStatuses
    ]_vars

\* C4: a plan has submittedAt set exactly when its status has at some point
\* been different from draft.
C4_SubmittedAtIffLeftDraft ==
  \A p \in PlanIds : (plans[p].submittedAt # Unset) <=> everLeftDraft[p]

\* C5: a plan whose reviewedAt or supervisor comments are set has status
\* approved or needs_revision (also after a needs_revision plan is submitted
\* again).
C5_ReviewFieldsOnlyWhenReviewed ==
  \A p \in PlanIds :
     (plans[p].reviewedAt # Unset \/ plans[p].supervisorComments # NoComment)
       => plans[p].status \in ReviewedStatuses

\* C6: every successful submit appends an audit entry and creates a
\* plan_submitted notification; every successful review appends an audit entry
\* and creates a plan_approved or plan_needs_revision notification.
C6_TransitionSideEffects ==
  [][ /\ (last'.op = "submit" /\ last'.code = 200)
         => /\ Len(audit') = Len(audit) + 1
            /\ Len(notifications') = Len(notifications) + 1
            /\ notifications'[Len(notifications')].type = "plan_submitted"
      /\ (last'.op = "review" /\ last'.code = 200)
         => /\ Len(audit') = Len(audit) + 1
            /\ Len(notifications') = Len(notifications) + 1
            /\ notifications'[Len(notifications')].type
                 \in {"plan_approved", "plan_needs_revision"}
    ]_vars

(***************************************************************************)
(* Assignment history properties.                                          *)
(***************************************************************************)
\* the positions of a patient's Assignment records, in creation order
RecordsOf(p) == {i \in 1..Len(assignments) : assignments[i].patient = p}

Latest(idx) == CHOOSE i \in idx : \A j \in idx : j <= i

\* the request was made by a stored supervisor or admin
AuthorizedActor(userId) == userId \in Users /\ MayAssign(UserRole[userId])

\* C7: after any sequence of completed auto-assign, manual-assign and unassign
\* requests, the caregiver of the patient's most recently created Assignment
\* record equals the patient's current-assignment pointer.
C7_LatestRecordMatchesPointer ==
  \A p \in Patients :
     RecordsOf(p) # {} => assignments[Latest(RecordsOf(p))].therapist = pointer[p]

\* C8: a manual-assign whose requested caregiver is the patient's current
\* caregiver fails, inserts no Assignment record, leaves the pointer unchanged
\* and writes no audit entry.
C8_AlreadyAssignedRejected ==
  [][ (/\ last'.op = "manual"
       /\ last'.patient \in Patients
       /\ pointer[last'.patient] # Null
       /\ last'.therapist = pointer[last'.patient])
      => /\ Failed(last'.code)
         /\ last'.error = "Patient is already assigned to this therapist"
         /\ assignments' = assignments
         /\ pointer' = pointer
         /\ audit' = audit
    ]_vars

\* C9: from an unassigned patient, manual-assign to X, unassign of that
\* assignment and manual-assign to Y # X succeed one after the other and leave
\* the records (caregiver X), (caregiver null, previousCaregiver X),
\* (caregiver Y); the pointer is absent after the second step and Y after the
\* third.
C9_UnassignThenReassign ==
  [][ \A p \in Patients :
      \* first step: manual-assign of the unassigned patient to X
      /\ (/\ assignments = <<>> /\ pointer[p] = Null
          /\ last'.op = "manual" /\ last'.patient = p
          /\ AuthorizedActor(last'.actor)
          /\ last'.therapist \in Users /\ UserRole[last'.therapist] = "therapist")
         => /\ last'.code = 201
            /\ Len(assignments') = 1
            /\ assignments'[1].therapist = last'.therapist
            /\ pointer'[p] = last'.therapist
      \* second step: unassign of that assignment
      /\ (/\ Len(assignments) = 1 /\ assignments[1].patient = p
          /\ assignments[1].method = "manual"
          /\ pointer[p] = assignments[1].therapist
          /\ last'.op = "unassign" /\ last'.target = 1
          /\ AuthorizedActor(last'.actor))
         => /\ last'.code = 200
            /\ Len(assignments') = 2
            /\ assignments'[1] = assignments[1]
            /\ assignments'[2].therapist = Null
            /\ "previousTherapist" \in DOMAIN assignments'[2]
            /\ assignments'[2].previousTherapist = assignments[1].therapist
            /\ pointer'[p] = Null
      \* third step: manual-assign to Y
      /\ (/\ Len(assignments) = 2 /\ assignments[1].patient = p
          /\ assignments[2].patient = p
          /\ assignments[1].therapist # Null /\ assignments[2].therapist = Null
          /\ pointer[p] = Null
          /\ last'.op = "manual" /\ last'.patient = p
          /\ AuthorizedActor(last'.actor)
          /\ last'.therapist \in Users /\ UserRole[last'.therapist] = "therapist"
          /\ last'.therapist # assignments[1].therapist)
         => /\ last'.code = 201
            /\ Len(assignments') = 3
            /\ SubSeq(assignments', 1, 2) = assignments
            /\ assignments'[3].therapist = last'.therapist
            /\ pointer'[p] = last'.therapist
    ]_vars

C14_ReviewRequiresSupervisor ==
  [][ (last'.op = "review" /\ PlanExists(last'.id)
         /\ last'.role \notin {"supervisor", "admin"})
        => /\ last'.code \in {401, 403}
           /\ plans'[last'.id].status = plans[last'.id].status
           /\ plans'[last'.id].reviewedAt = plans[last'.id].reviewedAt
           /\ plans'[last'.id].supervisorComments = plans[last'.id].supervisorComments
    ]_vars

(***************************************************************************)
(* The notification dispatcher.  Its typed helpers build the notification  *)
(* and hand it to createNotification; five of them first look up the user  *)
(* whose name goes into the message.                                       *)
(***************************************************************************)
\* User.findById(id) for the name in the message: a rejection by the store is
\* thrown to the caller of the helper; a missing user is tolerated (?.name)
LookupThenNotify(ns, toUser, type, rejected) ==
  IF "user_find" \in rejected
    THEN [ns |-> ns, result |-> Null, threw |-> TRUE]
    ELSE createNotification(ns, toUser, type, "notification_insert" \in rejected)

notifyPlanSubmitted(ns, supervisorId, rejected) ==
  LookupThenNotify(ns, supervisorId, "plan_submitted", rejected)

notifyPlanApproved(ns, therapistId, rejected) ==
  LookupThenNotify(ns, therapistId, "plan_approved", rejected)

notifyPlanNeedsRevision(ns, therapistId, rejected) ==
  LookupThenNotify(ns, therapistId, "plan_needs_revision", rejected)

notifyProgressReportDue(ns, therapistId, rejected) ==
  createNotification(ns, therapistId, "report_due", "notification_insert" \in rejected)

notifyProgressReportSubmitted(ns, supervisorId, rejected) ==
  LookupThenNotify(ns, supervisorId, "report_submitted", rejected)

notifyAssignmentChanged(ns, therapistId, rejected) ==
  createNotification(ns, therapistId, "assignment_changed",
                     "notification_insert" \in rejected)

notifyRatingReceived(ns, therapistId, rejected) ==
  LookupThenNotify(ns, therapistId, "rating_received", rejected)

createSystemAlert(ns, userId, rejected) ==
  createNotification(ns, userId, "system_alert", "notification_insert" \in rejected)

EntryPoints ==
  {"createNotification", "notifyPlanSubmitted", "notifyPlanApproved",
   "notifyPlanNeedsRevision", "notifyProgressReportDue",
   "notifyProgressReportSubmitted", "notifyAssignmentChanged",
   "notifyRatingReceived", "createSystemAlert"}

\* the entry points that call User.findById before createNotification
LookupEntryPoints ==
  {"notifyPlanSubmitted", "notifyPlanApproved", "notifyPlanNeedsRevision",
   "notifyProgressReportSubmitted", "notifyRatingReceived"}

CallEntryPoint(entry, ns, toUser, rejected) ==
  CASE entry = "createNotification" ->
         createNotification(ns, toUser, "system_alert", "notification_insert" \in rejected)
    [] entry = "notifyPlanSubmitted" -> notifyPlanSubmitted(ns, toUser, rejected)
    [] entry = "notifyPlanApproved" -> notifyPlanApproved(ns, toUser, rejected)
    [] entry = "notifyPlanNeedsRevision" -> notifyPlanNeedsRevision(ns, toUser, rejected)
    [] entry = "notifyProgressReportDue" -> notifyProgressReportDue(ns, toUser, rejected)
    [] entry = "notifyProgressReportSubmitted" ->
         notifyProgressReportSubmitted(ns, toUser, rejected)
    [] entry = "notifyAssignmentChanged" -> notifyAssignmentChanged(ns, toUser, rejected)
    [] entry = "notifyRatingReceived" -> notifyRatingReceived(ns, toUser, rejected)
    [] entry = "createSystemAlert" -> createSystemAlert(ns, toUser, rejected)

\* recipients a caller can name: a stored user, or none (toUser is required)
RecipientInputs == {"s1", Null}

\* the store calls of one dispatch that the store rejects
DispatchRejectInputs == SUBSET {"user_find", "notification_insert"}

\* a caller invokes an entry point of the dispatcher
Dispatch(entry, toUser, rejected) ==
  LET r == CallEntryPoint(entry, notifications, toUser, rejected)
  IN  /\ Len(r.ns) <= MaxNotifications
      /\ notifications' = r.ns
      /\ last' = [op |-> entry, toUser |-> toUser, rejected |-> rejected,
                  result |-> r.result, threw |-> r.threw]
      /\ UNCHANGED <<planVars, assignVars, audit, docs, env, inflight>>

NextNotify ==
  \E e \in EntryPoints, u \in RecipientInputs, rej \in DispatchRejectInputs :
     Dispatch(e, u, rej)

SpecNotify == Init /\ [][NextNotify]_vars

\* the store calls an entry point makes
CallsMade(entry) ==
  IF entry \in LookupEntryPoints THEN {"user_find", "notification_insert"}
  ELSE {"notification_insert"}

\* C12: no entry point of the notification dispatcher throws to its caller;
\* when a store call it makes is rejected, it returns null.
C12_DispatcherNeverThrows ==
  last.op \in EntryPoints =>
    /\ ~last.threw
    /\ (last.rejected \cap CallsMade(last.op) # {}) => last.result = Null

(***************************************************************************)
(* Side effects and guards of the assignment operations.                   *)
(***************************************************************************)
PrimaryWrites == {"assignment_insert", "patient_update"}
SideWrites == {"audit_insert", "notification_insert"}

\* two outcomes agree on the response, the records and the pointer
SameResult(o1, o2) ==
  /\ [o1.response EXCEPT !.rejected = {}] = [o2.response EXCEPT !.rejected = {}]
  /\ o1.assignments = o2.assignments
  /\ o1.pointer = o2.pointer

\* C11: when the store rejects the audit entry insert or the notification
\* insert of an assignment operation and nothing else, the operation gives the
\* same response and leaves the same Assignment records and patient pointer
\* as the same request does from the same store when both inserts succeed.
C11_SideInsertFailureLeavesResult ==
  \A a \in OpsActors, rej \in RejectInputs :
    (rej # {} /\ rej \subseteq SideWrites) =>
      /\ \A p \in Patients :
            SameResult(AutoAssignOutcome(a, p, rej), AutoAssignOutcome(a, p, {}))
      /\ \A p \in Patients, t \in OpsTherapistIds, r \in ReasonInputs :
            SameResult(ManualAssignOutcome(a, p, t, r, rej),
                       ManualAssignOutcome(a, p, t, r, {}))
      /\ \A id \in OpsAssignmentIds, r \in ReasonInputs :
            SameResult(UnassignOutcome(a, id, r, rej), UnassignOutcome(a, id, r, {}))

\* an assignment was answered 201 although its audit entry was rejected
C11_Witness ==
  /\ last.op \in {"auto", "manual"}
  /\ last.code = 201
  /\ "audit_insert" \in last.rejected
  /\ audit = <<>>
  /\ Len(assignments) = 1
  /\ pointer[last.patient] = assignments[1].therapist

\* C13: a step of auto-assign, manual-assign or unassign that writes an audit
\* entry or a notification has inserted its Assignment record and updated the
\* patient pointer, with neither write rejected; a step in which a primary
\* write fails writes no audit entry and no notification.
C13_SideEffectsAfterPrimaryWrites ==
  [][ /\ (audit' # audit \/ notifications' # notifications) =>
            /\ last'.op \in {"auto", "manual", "unassign"}
            /\ last'.rejected \cap PrimaryWrites = {}
            /\ ~Failed(last'.code)
            /\ Len(assignments') = Len(assignments) + 1
            /\ assignments'[Len(assignments')].patient = last'.patient
            /\ pointer'[last'.patient] = assignments'[Len(assignments')].therapist
      /\ (last'.op \in {"auto", "manual", "unassign"} /\ Failed(last'.code)) =>
            (audit' = audit /\ notifications' = notifications)
    ]_vars

\* the record was inserted, the pointer update was rejected, and neither an
\* audit entry nor a notification exists
C13_Witness ==
  /\ last.op = "manual"
  /\ last.rejected = {"patient_update"}
  /\ last.code = 500
  /\ Len(assignments) = 1
  /\ pointer[last.patient] = Null
  /\ audit = <<>>
  /\ notifications = <<>>

\* req.auth.role of the request that `last` answers
RoleOf(userId) == (CHOOSE a \in GuardActors : a.userId = userId).role

\* C15: a request to auto-assign, manual-assign, unassign or the assignment
\* statistics by a role outside {supervisor, admin} is answered 403 and leaves
\* the Assignment records, the pointer, the audit log and the notifications as
\* they were; the statistics request of a supervisor is answered 200.
C15_RoleGate ==
  [][ last'.op \in {"auto", "manual", "unassign", "stats"} =>
        /\ RoleOf(last'.actor) \notin {"supervisor", "admin"} =>
              /\ last'.code = 403
              /\ UNCHANGED <<assignments, pointer, audit, notifications>>
        /\ (last'.op = "stats" /\ RoleOf(last'.actor) = "supervisor") =>
              last'.code = 200
    ]_vars

\* a therapist's unassign request was refused while a patient was assigned
C15_Witness ==
  /\ last.op = "unassign"
  /\ last.code = 403
  /\ RoleOf(last.actor) = "therapist"
  /\ Len(assignments) = 1
  /\ pointer["p1"] = assignments[1].therapist

\* C16: auto-assign fails with "Patient not found" when the patient is absent
\* and with "No available therapists found" when no therapist is active;
\* manual-assign fails with "Patient not found", then "Invalid therapist"
\* (target missing or not a therapist), then "Unauthorized" (authorizer missing
\* or neither supervisor nor admin), the first that applies; in each of these
\* cases no record is inserted, the pointer is unchanged and no audit entry is
\* written.
C16_PreconditionsBlockWrites ==
  [][ LET noWrite == /\ Failed(last'.code)
                     /\ UNCHANGED <<assignments, pointer, audit>>
          targetOk == /\ last'.therapist \in Users
                      /\ UserRole[last'.therapist] = "therapist"
      IN
      /\ (last'.op = "auto" /\ MayAssign(RoleOf(last'.actor))) =>
            /\ last'.patient \notin Patients =>
                  (last'.error = "Patient not found" /\ noWrite)
            /\ (last'.patient \in Patients /\ ActiveTherapists = <<>>) =>
                  (last'.error = "No available therapists found" /\ noWrite)
      /\ (last'.op = "manual" /\ MayAssign(RoleOf(last'.actor))) =>
            /\ last'.patient \notin Patients =>
                  (last'.error = "Patient not found" /\ noWrite)
            /\ (last'.patient \in Patients /\ ~targetOk) =>
                  (last'.error = "Invalid therapist" /\ noWrite)
            /\ (last'.patient \in Patients /\ targetOk
                  /\ ~AuthorizedActor(last'.actor)) =>
                  (last'.error = "Unauthorized: Only supervisors can assign patients"
                     /\ noWrite)
    ]_vars

\* auto-assign found no active therapist for a patient who stays assigned to
\* a deactivated one
C16_Witness ==
  /\ last.op = "auto"
  /\ last.error = "No available therapists found"
  /\ Len(assignments) = 1
  /\ pointer["p1"] = assignments[1].therapist
  /\ audit # <<>>

(***************************************************************************)
(* Scoring and selection properties.                                       *)
(***************************************************************************)
\* the stored therapists that are active, and the place of each in load order
ActiveSet == {t \in DOMAIN docs.therapists : docs.therapists[t].active}
LoadPosition(t) == CHOOSE i \in 1..Len(docs.order) : docs.order[i] = t
TotalOf(t, p) ==
  calculateTherapistScore(docs.patients[p], docs.therapists[t],
                          CurrentCaseload(t, pointer)).total

\* C17: a successful auto-assign selects an active therapist whose total is
\* the maximum over the active therapists, the first in load order among those
\* with the maximum; the created record and the patient's pointer name it.
C17_SelectsFirstMaximum ==
  [][ (last'.op = "auto" /\ last'.code = 201) =>
        LET w == last'.therapist
            p == last'.patient
        IN  /\ w \in ActiveSet
            /\ \A t \in ActiveSet :
                  /\ TotalOf(t, p) <= TotalOf(w, p)
                  /\ TotalOf(t, p) = TotalOf(w, p) => LoadPosition(w) <= LoadPosition(t)
            /\ assignments'[Len(assignments')].therapist = w
            /\ assignments'[Len(assignments')].patient = p
            /\ pointer'[p] = w
    ]_vars

\* two active therapists with the same profile, t2 loaded first, t2 selected
C17_Witness ==
  /\ last.op = "auto"
  /\ last.code = 201
  /\ docs.order[1] = "t2"
  /\ docs.therapists["t1"] = docs.therapists["t2"]
  /\ docs.therapists["t1"].active
  /\ last.therapist = "t2"
  /\ pointer["p1"] = "t2"

\* the store of the worked example: a patient tagged chronic-pain without
\* diagnoses, t1 with the specialty Pain Management and 8 active patients, t2
\* without specialties and with 22, the other profile fields equal
PainScenario ==
  /\ docs.patients["p1"].tags = <<ChronicPain>>
  /\ docs.patients["p1"].diagnoses = <<>>
  /\ docs.therapists["t1"].specialties = <<PainManagement>>
  /\ docs.therapists["t2"].specialties = <<>>
  /\ docs.therapists["t1"].active /\ docs.therapists["t2"].active
  /\ docs.therapists["t1"].weeklySlots = docs.therapists["t2"].weeklySlots
  /\ docs.therapists["t1"].yearsExperience = docs.therapists["t2"].yearsExperience
  /\ CurrentCaseload("t1", pointer) = 8
  /\ CurrentCaseload("t2", pointer) = 22

\* C18: in the store of the worked example auto-assign selects t1, the
\* therapist with the specialty Pain Management, in either load order.
C18_PainScenarioSelectsSpecialist ==
  [][ (PainScenario /\ last'.op = "auto" /\ last'.code = 201)
        => last'.therapist = "t1" ]_vars

\* C20: the total returned by the scorer lies in 0..100 and is
\* 0.40*specialty + 0.25*availability + 0.25*caseload + 0.10*experience, and
\* each of the four sub-scores lies in 0..100.
C20_TotalIsBoundedWeightedSum ==
  last.op = "score" =>
    LET patient == docs.patients[last.patient]
        therapist == docs.therapists[last.therapist]
        specialty == calculateSpecialtyMatch(patient, therapist)
        availability == calculateAvailabilityScore(therapist)
        caseload == calculateCaseloadScore(CurrentCaseload(last.therapist, pointer))
        experience == calculateExperienceScore(therapist)
    IN  /\ \A sub \in {specialty, availability, caseload, experience} :
              0 <= sub /\ sub <= 100 * SubScale
        /\ 0 <= last.total /\ last.total <= 100 * TotalScale
        /\ last.total = 8 * specialty + 5 * availability + 5 * caseload + 2 * experience

\* a caregiver scored with every sub-score at 100: two matching items, 40 or
\* more weekly slots, 10 to 14 active patients, 8 or more years
C20_Witness ==
  /\ last.op = "score"
  /\ last.total = 100 * TotalScale
  /\ Len(docs.patients[last.patient].tags) = 2

\* C26: for a caregiver whose weekly slots value s is present, the
\* availability sub-score is 100 if s >= 40, 80 if s >= 30, 60 if s >= 20,
\* 40 if s >= 10 and 20 otherwise, s = 0 included; it is 50 only when the
\* value is absent.
C26_AvailabilityStepFunction ==
  last.op = "score" =>
    LET s == docs.therapists[last.therapist].weeklySlots
        expected == IF s = NoSlots THEN 50
                    ELSE IF s >= 40 THEN 100
                    ELSE IF s >= 30 THEN 80
                    ELSE IF s >= 20 THEN 60
                    ELSE IF s >= 10 THEN 40
                    ELSE 20
    IN  last.breakdown.availability = expected * SubScale * 5

\* C27: the rationale of an auto-assignment names a factor exactly when the
\* winner's sub-score of that factor, on its scale of 0..100, exceeds its
\* threshold (specialty 70, availability 80, caseload 70, experience 60), and
\* is the best-available fallback exactly when no factor does.
C27_RationaleFollowsSubScores ==
  [][ (last'.op = "auto" /\ last'.code = 201) =>
        LET patient == docs.patients[last'.patient]
            winner == docs.therapists[last'.therapist]
            load == CurrentCaseload(last'.therapist, pointer)
            factors ==
              (IF calculateSpecialtyMatch(patient, winner) > 70 * SubScale
                 THEN {"specialty"} ELSE {})
              \cup (IF calculateAvailabilityScore(winner) > 80 * SubScale
                      THEN {"availability"} ELSE {})
              \cup (IF calculateCaseloadScore(load) > 70 * SubScale
                      THEN {"caseload"} ELSE {})
              \cup (IF calculateExperienceScore(winner) > 60 * SubScale
                      THEN {"experience"} ELSE {})
        IN  assignments'[Len(assignments')].rationale =
              IF factors = {} THEN {"best available"} ELSE factors
    ]_vars

\* C28: the Assignment record stored by a successful auto-assign has method
\* auto, a score that is the winner's total, and the winner's score breakdown.
C28_AutoRecordCarriesScore ==
  [][ (last'.op = "auto" /\ last'.code = 201) =>
        LET record == assignments'[Len(assignments')]
            sc == calculateTherapistScore(docs.patients[last'.patient],
                                          docs.therapists[last'.therapist],
                                          CurrentCaseload(last'.therapist, pointer))
        IN  /\ record.method = "auto"
            /\ "score" \in DOMAIN record
            /\ record.score = sc.total
            /\ "scoreBreakdown" \in DOMAIN record
            /\ record.scoreBreakdown = sc.breakdown
    ]_vars

\* C29: when auto-assign, manual-assign or unassign answers with an error, the
\* Assignment records and the patient pointer are as they were before the
\* request.
C29_AllOrNothing ==
  [][ (last'.op \in {"auto", "manual", "unassign"} /\ Failed(last'.code)) =>
        (assignments' = assignments /\ pointer' = pointer)
    ]_vars

\* C23: a review with decision needs_revision and missing or empty comments
\* fails and leaves the plan unchanged, and no plan in status needs_revision
\* is without reviewer comments; a review with decision approved of a stored
\* plan succeeds whatever its comments.
C23_RevisionRequiresComments ==
  [][ /\ (last'.op = "review" /\ PlanExists(last'.id)
            /\ last'.decision = "needs_revision"
            /\ last'.comments \in {Missing, ""})
         => (Failed(last'.code) /\ plans'[last'.id] = plans[last'.id])
      /\ \A p \in PlanIds :
            (plans[p].status # "needs_revision"
               /\ plans'[p].status = "needs_revision")
            => plans'[p].supervisorComments \notin {NoComment, ""}
      /\ (last'.op = "review" /\ PlanExists(last'.id)
            /\ last'.decision = "approved")
         => ~Failed(last'.code)
    ]_vars

\* C30: a created plan has status draft with submittedAt and reviewedAt
\* unset; PUT /api/plans/:id leaves status, submittedAt, reviewedAt and the
\* supervisor comments of the plan as they were; the status of a plan changes
\* only in a submit or a review.
C30_WorkflowFieldsOnlyByWorkflow ==
  [][ /\ (last'.op = "create" /\ last'.code = 201) =>
            /\ plans'[last'.id].status = "draft"
            /\ plans'[last'.id].submittedAt = Unset
            /\ plans'[last'.id].reviewedAt = Unset
      /\ (last'.op = "update" /\ PlanExists(last'.id)) =>
            plans'[last'.id] = plans[last'.id]
      /\ \A p \in PlanIds :
            plans'[p].status # plans[p].status => last'.op \in {"submit", "review"}
    ]_vars

(***************************************************************************)
(* Overlapping requests.                                                   *)
(***************************************************************************)
AllIdle == \A c \in Callers : inflight[c].pc = "idle"

\* C21: a manual-assign call that passed the already-assigned check inserts
\* its record whatever other calls have written since, and a pointer update
\* sets the pointer to the caregiver of the call that makes it, so that after
\* overlapping calls the pointer is the caregiver of the update made last;
\* two overlapping calls naming the same caregiver both insert a record.
C21_OverlappingCallsBothWrite ==
  [][ /\ \A c \in Callers :
            (inflight[c].pc = "running" /\ inflight'[c] # inflight[c]) =>
               LET call == Head(inflight[c].todo)
               IN  /\ call.call = "assignment_insert" =>
                         assignments' = Append(assignments, StrictAssignment(call.doc))
                   /\ call.call = "patient_update" =>
                         pointer'[call.patient] = call.value
      /\ pointer' # pointer =>
            \E c \in Callers :
               /\ inflight[c].pc = "running"
               /\ inflight'[c] # inflight[c]
               /\ Head(inflight[c].todo).call = "patient_update"
    ]_vars

\* two manual-assign calls naming t1 have both finished: two records name t1
\* and the pointer is t1
C21_Witness ==
  /\ AllIdle
  /\ Len(assignments) = 2
  /\ \A i \in 1..2 : assignments[i].method = "manual" /\ assignments[i].therapist = "t1"
  /\ pointer["p1"] = "t1"
  /\ Len(audit) = 2

\* C22: once every overlapping assign operation on a patient has completed,
\* the patient's pointer is the caregiver of the patient's most recently
\* created Assignment record.
C22_PointerMatchesLatestWhenQuiet ==
  \A p \in Patients :
     (AllIdle /\ RecordsOf(p) # {}) =>
        pointer[p] = assignments[Latest(RecordsOf(p))].therapist

\* C24: in production no request passes the authentication middleware with
\* an identity and role attached unless its bearer token verified; a request
\* with no Authorization header is answered 401 and is not given the
\* supervisor role.
C24_ProductionRequiresVerifiedToken ==
  (last.op = "auth" /\ env.nodeEnv = "production") =>
     /\ last.passed => last.verified
     /\ last.request.authorization.scheme = "none" =>
           /\ last.code = 401
           /\ last.auth.role # "supervisor"

\* C25: an admin's DELETE /api/notifications/cleanup is handled by the
\* cleanup handler and leaves exactly the notifications that are unread or
\* not older than the cutoff.
C25_CleanupRemovesReadAndOld ==
  (last.op = "DELETE" /\ last.actor.role = "admin" /\ last.segment.text = "cleanup") =>
     /\ last.handler = "cleanup"
     /\ \A i \in 1..Len(last.before) :
           LET n == last.before[i]
               swept == n.read /\ n.createdAt < now - ParseDaysOld(last.daysOld)
           IN  swept <=> ~\E j \in 1..Len(notifications) : notifications[j] = n

====
